---- MODULE Spec2Model ----
(***************************************************************************)
(* Beam Studio Pro (src/streamlit_app.py): the Streamlit session (geometry *)
(* widgets, load manager, Del / Clear All) and the statics engine          *)
(* (validate_inputs, calculate_analysis).                                  *)
(*                                                                         *)
(* Numbers.  The program computes with floats.  A number is modelled as an *)
(* exact fraction <<n, d>> in lowest terms with d > 0; the three IEEE      *)
(* specials a numpy division by zero produces are <<1, 0>> (+inf),         *)
(* <<-1, 0>> (-inf) and <<0, 0>> (nan).  Rounding is not modelled.         *)
(* Widget values are drawn from small sets of integers.                    *)
(***************************************************************************)
EXTENDS Integers, Sequences, FiniteSets, TLC

\* b_type, L, SupA, SupB  the geometry widgets
\* loads_list              st.session_state.loads_list
\* click                   the button pressed in the latest script run, with the
\*                         values of the widgets of its tab
\* msg                     the message st.error shows, "" when there is none
\* pc                      "idle": the script run has completed;
\*                         "rerun": st.rerun() has abandoned it
\* result                  what calculate_analysis returned (or raised) in the
\*                         latest script run that reached it
VARIABLES b_type, L, SupA, SupB, loads_list, click, msg, pc, result

vars == <<b_type, L, SupA, SupB, loads_list, click, msg, pc, result>>

(***************************************************************************)
(* Bounds of the model.                                                    *)
(***************************************************************************)
\* length cap of st.session_state.loads_list (unbounded in the program)
MaxLoads == 2
\* number of stations of np.linspace(0, L, 500), scaled down
NumStations == 5

(***************************************************************************)
(* Float arithmetic on fractions.                                          *)
(***************************************************************************)
\* a float: a fraction or an IEEE special
Num == Int \X Int

Abs(n) == IF n < 0 THEN -n ELSE n

Sgn(n) == IF n < 0 THEN -1 ELSE IF n > 0 THEN 1 ELSE 0

RECURSIVE GCD(_, _)
GCD(a, b) == IF b = 0 THEN a ELSE GCD(b, a % b)

Frac[n \in Int, d \in Int] ==
  IF d = 0 THEN <<Sgn(n), 0>>
  ELSE LET g == GCD(Abs(n), Abs(d))
       IN  IF d < 0 THEN <<(-n) \div g, (-d) \div g>> ELSE <<n \div g, d \div g>>

R[i \in Int] == <<i, 1>>

NaN == <<0, 0>>

IsFinite[a \in Num] == a[2] # 0

IsNaN[a \in Num] == a = NaN

FAdd[a \in Num, b \in Num] ==
  IF IsFinite[a] /\ IsFinite[b] THEN Frac[a[1] * b[2] + b[1] * a[2], a[2] * b[2]]
  ELSE IF IsNaN[a] \/ IsNaN[b] THEN NaN
  ELSE IF IsFinite[a] THEN b
  ELSE IF IsFinite[b] THEN a
  ELSE IF a = b THEN a ELSE NaN

FNeg[a \in Num] == <<-a[1], a[2]>>

FSub[a \in Num, b \in Num] == FAdd[a, FNeg[b]]

FMul[a \in Num, b \in Num] ==
  IF IsFinite[a] /\ IsFinite[b] THEN Frac[a[1] * b[1], a[2] * b[2]]
  ELSE IF IsNaN[a] \/ IsNaN[b] THEN NaN
  ELSE <<Sgn(a[1]) * Sgn(b[1]), 0>>

\* a / b of two finite floats with b # 0
FDiv[a \in Num, b \in Num] == Frac[a[1] * b[2], a[2] * b[1]]

\* a / b where an operand is a numpy float64: a zero divisor gives inf or nan
NpDiv[a \in Num, b \in Num] == IF b[1] = 0 THEN <<Sgn(a[1]), 0>> ELSE FDiv[a, b]

FLt[a \in Num, b \in Num] == IsFinite[a] /\ IsFinite[b] /\ a[1] * b[2] < b[1] * a[2]

FMin[a \in Num, b \in Num] == IF FLt[b, a] THEN b ELSE a

FAbs[a \in Num] == <<Abs(a[1]), a[2]>>

(***************************************************************************)
(* validate_inputs(load_type, L, *args): <<valid, message>>.               *)
(* The arguments are floats of st.number_input, so the except branch       *)
(* ("Invalid numeric input.") is never taken.  The two f-string messages   *)
(* are written without the numbers they interpolate.                       *)
(***************************************************************************)
validate_inputs(load_type, len, args) ==
  IF len <= 0 THEN <<FALSE, "Beam length must be positive.">>
  ELSE IF load_type = "POINT" THEN
    IF args[1] < 0 \/ args[1] > len
      THEN <<FALSE, "Location is outside beam.">>
      ELSE <<TRUE, "">>
  ELSE IF args[1] < 0 \/ args[2] > len
      THEN <<FALSE, "Range is outside beam.">>
  ELSE IF args[1] = args[2]
      THEN <<FALSE, "Start and End cannot be the same point.">>
  ELSE <<TRUE, "">>

(***************************************************************************)
(* calculate_analysis: the reaction solve.                                 *)
(***************************************************************************)
\* the force one load adds to f_sum
LoadForce(l) ==
  IF l.type = "POINT" THEN R[l.mag]
  ELSE IF l.type = "UDL" THEN FMul[R[l.mag], R[l.end - l.start]]
  ELSE LET length == R[l.end - l.start]
           f1 == FMul[FMin[R[l.start_mag], R[l.end_mag]], length]
           f2 == FMul[FMul[Frac[1, 2], FAbs[R[l.end_mag - l.start_mag]]], length]
       IN  FAdd[f1, f2]

\* LoadMoment with the two triangle centroids exchanged
LoadMoment_ThirdsSwapped(l, sa) ==
  IF l.type = "POINT" THEN FMul[R[l.mag], R[l.loc - sa]]
  ELSE IF l.type = "UDL" THEN
    LET length == R[l.end - l.start]
        f == FMul[R[l.mag], length]
    IN  FMul[f, FSub[FAdd[R[l.start], FDiv[length, R[2]]], R[sa]]]
  ELSE LET w1 == l.start_mag
           w2 == l.end_mag
           length == R[l.end - l.start]
           f1 == FMul[FMin[R[w1], R[w2]], length]
           f2 == FMul[FMul[Frac[1, 2], FAbs[R[w2 - w1]]], length]
           c1 == FSub[FAdd[R[l.start], FDiv[length, R[2]]], R[sa]]
           c2 == IF w2 > w1
                   THEN FSub[FAdd[R[l.start], FMul[Frac[1, 3], length]], R[sa]]
                   ELSE FSub[FAdd[R[l.start], FMul[Frac[2, 3], length]], R[sa]]
       IN  FAdd[FMul[f1, c1], FMul[f2, c2]]

\* the moment about support A one load adds to m_sum
LoadMoment(l, sa) ==
  IF l.type = "POINT" THEN FMul[R[l.mag], R[l.loc - sa]]
  ELSE IF l.type = "UDL" THEN
    LET length == R[l.end - l.start]
        f == FMul[R[l.mag], length]
    IN  FMul[f, FSub[FAdd[R[l.start], FDiv[length, R[2]]], R[sa]]]
  ELSE LET w1 == l.start_mag
           w2 == l.end_mag
           length == R[l.end - l.start]
           f1 == FMul[FMin[R[w1], R[w2]], length]
           f2 == FMul[FMul[Frac[1, 2], FAbs[R[w2 - w1]]], length]
           c1 == FSub[FAdd[R[l.start], FDiv[length, R[2]]], R[sa]]
           c2 == IF w2 > w1
                   THEN FSub[FAdd[R[l.start], FMul[Frac[2, 3], length]], R[sa]]
                   ELSE FSub[FAdd[R[l.start], FMul[Frac[1, 3], length]], R[sa]]
       IN  FAdd[FMul[f1, c1], FMul[f2, c2]]

RECURSIVE ForceSum(_)
ForceSum(loads) ==
  IF loads = <<>> THEN R[0] ELSE FAdd[LoadForce(Head(loads)), ForceSum(Tail(loads))]

RECURSIVE MomentSum(_, _)
MomentSum(loads, sa) ==
  IF loads = <<>> THEN R[0]
  ELSE FAdd[LoadMoment(Head(loads), sa), MomentSum(Tail(loads), sa)]

\* <<Ra, Rb, Ma>>; the caller has excluded sb = sa for a simply supported beam
Reactions(sa, sb, bt, loads) ==
  LET m_sum == MomentSum(loads, sa)
      f_sum == ForceSum(loads)
  IN  IF bt = "Cantilever" THEN <<f_sum, R[0], m_sum>>
      ELSE LET Rb == FDiv[m_sum, R[sb - sa]]
           IN  <<FSub[f_sum, Rb], Rb, R[0]>>

(***************************************************************************)
(* calculate_analysis: the station loop.                                   *)
(***************************************************************************)
\* x[i] of np.linspace(0, L, NumStations), i = 1..NumStations
Station(len, i) == Frac[len * (i - 1), NumStations - 1]

\* w1 + w_at_x, the divisor of the centroid expression of the UVL branch
UVLDivisor(l, xi) ==
  LET curr_end == FMin[xi, R[l.end]]
      dx == FSub[curr_end, R[l.start]]
      w1 == R[l.start_mag]
      w_at_x == FAdd[w1, FMul[R[l.end_mag - l.start_mag], FDiv[dx, R[l.end - l.start]]]]
  IN  FAdd[w1, w_at_x]

\* the UVL branch is entered at station xi
UVLEngaged(l, xi) == l.type = "UVL" /\ FLt[R[l.start], xi]

\* min(xi, end) returned the Python float l["end"], so the division is Python's
UVLPythonDiv(l, xi) == FLt[R[l.end], xi]

\* <<amount subtracted from v_val, amount subtracted from m_val>> by one load
LoadCut(l, xi) ==
  IF l.type = "POINT" THEN
    IF FLt[R[l.loc], xi]
      THEN <<R[l.mag], FMul[R[l.mag], FSub[xi, R[l.loc]]]>>
      ELSE <<R[0], R[0]>>
  ELSE IF l.type = "UDL" THEN
    IF FLt[R[l.start], xi]
      THEN LET ov == FSub[FMin[xi, R[l.end]], R[l.start]]
               f == FMul[R[l.mag], ov]
           IN  <<f, FMul[f, FSub[xi, FAdd[R[l.start], FDiv[ov, R[2]]]]]>>
      ELSE <<R[0], R[0]>>
  ELSE
    IF FLt[R[l.start], xi]
      THEN LET curr_end == FMin[xi, R[l.end]]
               dx == FSub[curr_end, R[l.start]]
               w1 == R[l.start_mag]
               w_at_x == FAdd[w1, FMul[R[l.end_mag - l.start_mag],
                                       FDiv[dx, R[l.end - l.start]]]]
               f_slice == FMul[FDiv[FAdd[w1, w_at_x], R[2]], dx]
               cent == FMul[FDiv[dx, R[3]],
                            NpDiv[FAdd[FMul[R[2], w1], w_at_x], FAdd[w1, w_at_x]]]
           IN  <<f_slice, FMul[f_slice, FSub[xi, FAdd[R[l.start], cent]]]>>
      ELSE <<R[0], R[0]>>

RECURSIVE CutSum(_, _)
CutSum(loads, xi) ==
  IF loads = <<>> THEN <<R[0], R[0]>>
  ELSE LET c == LoadCut(Head(loads), xi)
           r == CutSum(Tail(loads), xi)
       IN  <<FAdd[c[1], r[1]], FAdd[c[2], r[2]]>>

\* <<v_val, m_val>> at station xi
StationValues(sa, sb, bt, loads, re, xi) ==
  LET Ra == re[1]
      Rb == re[2]
      Ma == re[3]
      a == IF FLt[R[sa], xi]
             THEN <<Ra, FSub[FMul[Ra, FSub[xi, R[sa]]], Ma]>>
             ELSE <<R[0], R[0]>>
      b == IF bt # "Cantilever" /\ FLt[R[sb], xi]
             THEN <<Rb, FMul[Rb, FSub[xi, R[sb]]]>>
             ELSE <<R[0], R[0]>>
      c == CutSum(loads, xi)
  IN  <<FSub[FAdd[a[1], b[1]], c[1]], FSub[FAdd[a[2], b[2]], c[2]]>>

ZeroDivisionError == [status |-> "ZeroDivisionError"]

\* the reaction solve divides by SupB - SupA = 0
SolverRaises(sa, sb, bt) == bt # "Cantilever" /\ sb - sa = 0

\* a station beyond the end of a UVL load divides by w1 + w_at_x = 0
SamplerRaises(len, loads) ==
  \E i \in 1..NumStations : \E k \in 1..Len(loads) :
     /\ UVLEngaged(loads[k], Station(len, i))
     /\ UVLPythonDiv(loads[k], Station(len, i))
     /\ UVLDivisor(loads[k], Station(len, i)) = R[0]

\* x, V, M, Ra, Rb, Ma from the reactions re and the station values sv
AnalysisResult(len, re, sv) ==
  [status |-> "ok",
   x |-> [i \in 1..NumStations |-> Station(len, i)],
   V |-> [i \in 1..NumStations |-> sv[i][1]],
   M |-> [i \in 1..NumStations |-> sv[i][2]],
   Ra |-> re[1], Rb |-> re[2], Ma |-> re[3]]

\* the reactions are solved once (re) and then used at every station
calculate_analysis(len, sa, sb, bt, loads) ==
  IF SolverRaises(sa, sb, bt) \/ SamplerRaises(len, loads) THEN ZeroDivisionError
  ELSE CHOOSE res \in
         { AnalysisResult(len, re,
             [i \in 1..NumStations |->
                StationValues(sa, sb, bt, loads, re, Station(len, i))]) :
           re \in {Reactions(sa, sb, bt, loads)} } : TRUE

(***************************************************************************)
(* The session: one script run per user interaction.  The user acts on the *)
(* page a completed script run has drawn (pc = "idle"); after st.rerun()   *)
(* the next script run starts at once.                                     *)
(***************************************************************************)
\* SupB_Calc of the call site
SupB_Calc(bt, len, sb) == IF bt # "Cantilever" THEN sb ELSE len

\* with col_viz: the call of calculate_analysis that ends every script run
RunAnalysis(bt, len, sa, sb, loads) ==
  calculate_analysis(len, sa, SupB_Calc(bt, len, sb), bt, loads)

BeamTypes == {"Simply Supported", "Cantilever"}

\* values typed into the geometry widgets
LengthInputs == {0, 5, 10}
SupAInputs == {0, 5}
SupBInputs == {5, 10}

\* values typed into the widgets of the three load tabs
PointMagInputs == {10}
PointLocInputs == {5, 10, 15}
UDLMagInputs == {5}
RangeInputs == {2, 8}
UVLMagInputs == {<<0, 10>>, <<10, 0>>}

NoClick == [btn |-> "none"]

\* loads_list.pop(i), i counted from 1
Pop(loads, i) == SubSeq(loads, 1, i - 1) \o SubSeq(loads, i + 1, Len(loads))

Init ==
  /\ b_type = "Simply Supported"
  /\ L = 10
  /\ SupA = 0
  /\ SupB = 10
  /\ loads_list = <<>>
  /\ click = NoClick
  /\ msg = ""
  /\ pc = "idle"
  /\ result = RunAnalysis("Simply Supported", 10, 0, 10, <<>>)

\* a script run in which no button is pressed, after a widget changed
Refresh(bt, len, sa, sb) ==
  /\ pc = "idle"
  /\ <<bt, len, sa, sb>> # <<b_type, L, SupA, SupB>>
  /\ b_type' = bt /\ L' = len /\ SupA' = sa /\ SupB' = sb
  /\ click' = NoClick
  /\ msg' = ""
  /\ result' = RunAnalysis(bt, len, sa, sb, loads_list)
  /\ UNCHANGED <<loads_list, pc>>

SetBType(t) == Refresh(t, L, SupA, SupB)

SetL(v) == Refresh(b_type, v, SupA, SupB)

SetSupA(v) == Refresh(b_type, L, v, SupB)

SetSupB(v) == Refresh(b_type, L, SupA, v)

\* AfterAdd without the test of valid
AfterAdd_AlwaysAppend(valid, load) ==
  /\ loads_list' = Append(loads_list, load)
  /\ msg' = valid[2]
  /\ result' = RunAnalysis(b_type, L, SupA, SupB, loads_list')
  /\ UNCHANGED <<b_type, L, SupA, SupB, pc>>

\* AfterAdd with the analysis run before the handler appends
AfterAdd_AnalysisFirst(valid, load) ==
  /\ loads_list' = IF valid[1] THEN Append(loads_list, load) ELSE loads_list
  /\ msg' = valid[2]
  /\ result' = RunAnalysis(b_type, L, SupA, SupB, loads_list)
  /\ UNCHANGED <<b_type, L, SupA, SupB, pc>>

\* the rest of a script run in which an Add button was pressed
AfterAdd(valid, load) ==
  /\ loads_list' = IF valid[1] THEN Append(loads_list, load) ELSE loads_list
  /\ msg' = valid[2]
  /\ result' = RunAnalysis(b_type, L, SupA, SupB, loads_list')
  /\ UNCHANGED <<b_type, L, SupA, SupB, pc>>

AddPoint(pm, pl) ==
  /\ pc = "idle"
  /\ Len(loads_list) < MaxLoads
  /\ click' = [btn |-> "Add Point Load", pm |-> pm, pl |-> pl]
  /\ AfterAdd(validate_inputs("POINT", L, <<pl>>),
              [type |-> "POINT", mag |-> pm, loc |-> pl])

AddUDL(um, us, ue) ==
  /\ pc = "idle"
  /\ Len(loads_list) < MaxLoads
  /\ click' = [btn |-> "Add UDL", um |-> um, us |-> us, ue |-> ue]
  /\ LET s == IF us > ue THEN ue ELSE us
         e == IF us > ue THEN us ELSE ue
     IN  AfterAdd(validate_inputs("UDL", L, <<s, e>>),
                  [type |-> "UDL", mag |-> um, start |-> s, end |-> e])

\* AddUVL swapping the positions only
AddUVL_NoMagSwap(vm1, vm2, vs, ve) ==
  /\ pc = "idle"
  /\ Len(loads_list) < MaxLoads
  /\ click' = [btn |-> "Add UVL", vm1 |-> vm1, vm2 |-> vm2, vs |-> vs, ve |-> ve]
  /\ LET s == IF vs > ve THEN ve ELSE vs
         e == IF vs > ve THEN vs ELSE ve
     IN  AfterAdd(validate_inputs("UVL", L, <<s, e>>),
                  [type |-> "UVL", start_mag |-> vm1, end_mag |-> vm2,
                   start |-> s, end |-> e])

AddUVL(vm1, vm2, vs, ve) ==
  /\ pc = "idle"
  /\ Len(loads_list) < MaxLoads
  /\ click' = [btn |-> "Add UVL", vm1 |-> vm1, vm2 |-> vm2, vs |-> vs, ve |-> ve]
  /\ LET s == IF vs > ve THEN ve ELSE vs
         e == IF vs > ve THEN vs ELSE ve
         m1 == IF vs > ve THEN vm2 ELSE vm1
         m2 == IF vs > ve THEN vm1 ELSE vm2
     IN  AfterAdd(validate_inputs("UVL", L, <<s, e>>),
                  [type |-> "UVL", start_mag |-> m1, end_mag |-> m2,
                   start |-> s, end |-> e])

\* st.rerun() abandons the script run: the analysis of this run is not reached
Del(i) ==
  /\ pc = "idle"
  /\ i \in 1..Len(loads_list)
  /\ loads_list' = Pop(loads_list, i)
  /\ click' = [btn |-> "Del", i |-> i]
  /\ msg' = ""
  /\ pc' = "rerun"
  /\ UNCHANGED <<b_type, L, SupA, SupB, result>>

ClearAll ==
  /\ pc = "idle"
  /\ loads_list # <<>>
  /\ loads_list' = <<>>
  /\ click' = [btn |-> "Clear All Loads"]
  /\ msg' = ""
  /\ pc' = "rerun"
  /\ UNCHANGED <<b_type, L, SupA, SupB, result>>

\* the script run st.rerun() asked for
Rerun ==
  /\ pc = "rerun"
  /\ pc' = "idle"
  /\ click' = NoClick
  /\ msg' = ""
  /\ result' = RunAnalysis(b_type, L, SupA, SupB, loads_list)
  /\ UNCHANGED <<b_type, L, SupA, SupB, loads_list>>

Next ==
  \/ \E t \in BeamTypes : SetBType(t)
  \/ \E v \in LengthInputs : SetL(v)
  \/ \E v \in SupAInputs : SetSupA(v)
  \/ \E v \in SupBInputs : SetSupB(v)
  \/ \E pm \in PointMagInputs, pl \in PointLocInputs : AddPoint(pm, pl)
  \/ \E um \in UDLMagInputs, us \in RangeInputs, ue \in RangeInputs : AddUDL(um, us, ue)
  \/ \E vm \in UVLMagInputs, vs \in RangeInputs, ve \in RangeInputs :
        AddUVL(vm[1], vm[2], vs, ve)
  \/ \E i \in 1..MaxLoads : Del(i)
  \/ ClearAll
  \/ Rerun

Spec == Init /\ [][Next]_vars

(***************************************************************************)
(* The engine on its own: calculate_analysis applied to a beam and a       *)
(* collection of loads that validate_inputs admits for that beam.          *)
(***************************************************************************)
CalcLengths == {6, 10}
CalcSupA == {0, 2}
CalcSupB == {6, 10}
CalcPointMags == {12}
CalcPointLocs == {2, 6, 10}
CalcUDLMags == {5}
CalcRanges == {<<2, 6>>, <<2, 8>>}
CalcUVLMags == {<<0, 10>>, <<10, 0>>, <<0, 0>>, <<-10, 10>>, <<5, 5>>}

CalcLoads ==
  {[type |-> "POINT", mag |-> m, loc |-> p] : m \in CalcPointMags, p \in CalcPointLocs}
  \cup {[type |-> "UDL", mag |-> m, start |-> r[1], end |-> r[2]] :
          m \in CalcUDLMags, r \in CalcRanges}
  \cup {[type |-> "UVL", start_mag |-> w[1], end_mag |-> w[2],
         start |-> r[1], end |-> r[2]] : w \in CalcUVLMags, r \in CalcRanges}

\* the arguments validate_inputs is called with for a stored load
LoadArgs(l) == IF l.type = "POINT" THEN <<l.loc>> ELSE <<l.start, l.end>>

Admitted(l, len) == validate_inputs(l.type, len, LoadArgs(l))[1]

SeqsUpTo(S, n) == UNION {[1..k -> S] : k \in 0..n}

NoResult == [status |-> "none"]

CalcInit ==
  /\ b_type \in BeamTypes
  /\ L \in CalcLengths
  /\ SupA \in CalcSupA
  /\ SupB \in CalcSupB
  /\ loads_list \in SeqsUpTo({l \in CalcLoads : Admitted(l, L)}, MaxLoads)
  /\ click = NoClick
  /\ msg = ""
  /\ pc = "rerun"
  /\ result = NoResult

CalcSpec == CalcInit /\ [][Rerun]_vars

(***************************************************************************)
(* Properties.                                                             *)
(***************************************************************************)
AddButtons == {"Add Point Load", "Add UDL", "Add UVL"}

Last(q) == q[Len(q)]

Lo(a, b) == IF a <= b THEN a ELSE b

Hi(a, b) == IF a <= b THEN b ELSE a

\* the load type and the normalized positions of the form an Add click submits
ClickType(c) ==
  IF c.btn = "Add Point Load" THEN "POINT" ELSE IF c.btn = "Add UDL" THEN "UDL" ELSE "UVL"

ClickArgs(c) ==
  IF c.btn = "Add Point Load" THEN <<c.pl>>
  ELSE IF c.btn = "Add UDL" THEN <<Lo(c.us, c.ue), Hi(c.us, c.ue)>>
  ELSE <<Lo(c.vs, c.ve), Hi(c.vs, c.ve)>>

ClickValid(c, len) == validate_inputs(ClickType(c), len, ClickArgs(c))[1]

\* C1: a step grows the load collection only if it is an Add whose normalized
\* input validate_inputs accepts, and then by exactly one element at the end;
\* an Add whose input is rejected leaves the collection as it was (same
\* elements, same order) and surfaces an error message.
C1_AddOnlyIfValid ==
  [][ /\ Len(loads_list') > Len(loads_list) =>
           /\ click'.btn \in AddButtons
           /\ ClickValid(click', L)
           /\ SubSeq(loads_list', 1, Len(loads_list)) = loads_list
           /\ Len(loads_list') = Len(loads_list) + 1
      /\ (click'.btn \in AddButtons /\ ~ClickValid(click', L)) =>
           /\ loads_list' = loads_list
           /\ msg' # "" ]_vars

\* a rejected Add on a non-empty collection
C1_Witness ==
  /\ click.btn \in AddButtons
  /\ ~ClickValid(click, L)
  /\ msg # ""
  /\ loads_list # <<>>

\* C8: an accepted UDL / UVL is stored with start = the smaller and end = the
\* larger submitted position; a UVL stores each intensity with the position it
\* was submitted with; submitting the stored values of the last load again
\* stores an identical load; inputs with start <= end are stored as given.
C8_RangeNormalization ==
  [][ /\ (click'.btn = "Add UDL" /\ msg' = "") =>
           /\ Last(loads_list') =
                [type |-> "UDL", mag |-> click'.um,
                 start |-> Lo(click'.us, click'.ue), end |-> Hi(click'.us, click'.ue)]
           /\ (loads_list # <<>> /\ Last(loads_list).type = "UDL"
               /\ click'.um = Last(loads_list).mag
               /\ click'.us = Last(loads_list).start
               /\ click'.ue = Last(loads_list).end)
              => Last(loads_list') = Last(loads_list)
      /\ (click'.btn = "Add UVL" /\ msg' = "") =>
           /\ Last(loads_list') =
                IF click'.vs > click'.ve
                  THEN [type |-> "UVL", start_mag |-> click'.vm2, end_mag |-> click'.vm1,
                        start |-> click'.ve, end |-> click'.vs]
                  ELSE [type |-> "UVL", start_mag |-> click'.vm1, end_mag |-> click'.vm2,
                        start |-> click'.vs, end |-> click'.ve]
           /\ (loads_list # <<>> /\ Last(loads_list).type = "UVL"
               /\ click'.vm1 = Last(loads_list).start_mag
               /\ click'.vm2 = Last(loads_list).end_mag
               /\ click'.vs = Last(loads_list).start
               /\ click'.ve = Last(loads_list).end)
              => Last(loads_list') = Last(loads_list) ]_vars

\* the stored form of an inverted UVL was submitted again and stored again
C8_Witness ==
  /\ click.btn = "Add UVL"
  /\ msg = ""
  /\ Len(loads_list) >= 2
  /\ loads_list[Len(loads_list) - 1] = Last(loads_list)
  /\ Last(loads_list) = [type |-> "UVL", start_mag |-> 10, end_mag |-> 0,
                         start |-> 2, end |-> 8]
  /\ click.vs < click.ve

\* C9: whenever a script run has completed, the displayed result is
\* calculate_analysis of the current load collection and geometry.
C9_ResultIsCurrent ==
  pc = "idle" => result = RunAnalysis(b_type, L, SupA, SupB, loads_list)

\* an accepted Add whose result shows the new load
C9_Witness ==
  /\ pc = "idle"
  /\ click.btn \in AddButtons
  /\ msg = ""
  /\ result.status = "ok"
  /\ result.Ra # R[0]

\* the resultant of a load as statics defines it
Resultant(l) ==
  IF l.type = "POINT" THEN R[l.mag]
  ELSE IF l.type = "UDL" THEN R[l.mag * (l.end - l.start)]
  ELSE Frac[(l.start_mag + l.end_mag) * (l.end - l.start), 2]

\* resultant * (centroid - sa): the first moment of the load about sa; for the
\* trapezoid w1 -> w2 over [s, e] it is
\* (w1 + w2)/2 * (e - s) * (s - sa) + (w1 + 2*w2)/6 * (e - s)^2
FirstMoment(l, sa) ==
  IF l.type = "POINT" THEN R[l.mag * (l.loc - sa)]
  ELSE IF l.type = "UDL"
    THEN Frac[l.mag * (l.end - l.start) * (l.start + l.end - 2 * sa), 2]
  ELSE FAdd[Frac[(l.start_mag + l.end_mag) * (l.end - l.start) * (l.start - sa), 2],
            Frac[(l.start_mag + 2 * l.end_mag) * (l.end - l.start) * (l.end - l.start), 6]]

RECURSIVE SumOver(_, _, _)
SumOver(Op(_, _), loads, sa) ==
  IF loads = <<>> THEN R[0]
  ELSE FAdd[Op(Head(loads), sa), SumOver(Op, Tail(loads), sa)]

ResultantAbout(l, sa) == Resultant(l)

\* C6: the returned reactions satisfy Ra + Rb = sum of the load resultants,
\* and for a simply supported beam Rb * (SupB - SupA) = sum of the first
\* moments of the loads about support A.
C6_GlobalEquilibrium ==
  (pc = "idle" /\ result.status = "ok") =>
     /\ FAdd[result.Ra, result.Rb] = SumOver(ResultantAbout, loads_list, SupA)
     /\ b_type = "Simply Supported" =>
          FMul[result.Rb, R[SupB - SupA]] = SumOver(FirstMoment, loads_list, SupA)

\* scenario 4 of the specification next to a second load
C6_Witness ==
  /\ pc = "idle" /\ result.status = "ok"
  /\ b_type = "Simply Supported" /\ L = 10 /\ SupA = 0 /\ SupB = 10
  /\ Len(loads_list) = 2
  /\ loads_list[1] = [type |-> "UVL", start_mag |-> 0, end_mag |-> 10,
                      start |-> 2, end |-> 8]
  /\ loads_list[2].type = "UDL"
  /\ result.Rb # R[0]

\* C2: every load handed to calculate_analysis satisfies its data-model
\* invariant against the beam length of that analysis, and that length is
\* positive.
C2_LoadsWithinBeam ==
  pc = "idle" =>
     /\ L > 0
     /\ \A k \in 1..Len(loads_list) :
          IF loads_list[k].type = "POINT"
            THEN 0 <= loads_list[k].loc /\ loads_list[k].loc <= L
            ELSE /\ 0 <= loads_list[k].start
                 /\ loads_list[k].start < loads_list[k].end
                 /\ loads_list[k].end <= L

\* C3: calculate_analysis is never invoked for a simply supported beam whose
\* two supports coincide, so the reaction solve never divides by zero.
C3_NoDegenerateSupportSpan ==
  pc = "idle" =>
     /\ ~(b_type = "Simply Supported" /\ SupB_Calc(b_type, L, SupB) - SupA = 0)
     /\ ~SolverRaises(SupA, SupB_Calc(b_type, L, SupB), b_type)

\* a load acts at the end x = len of the beam
ActsAt(l, len) == IF l.type = "POINT" THEN l.loc = len ELSE l.end = len

\* C4: simply supported beam without overhang, no load acting at L: the
\* sampled moment at the last station of the returned result is 0.
C4_MomentZeroAtL ==
  (/\ pc = "idle" /\ result.status = "ok"
   /\ b_type = "Simply Supported" /\ SupA = 0 /\ SupB = L
   /\ \A k \in 1..Len(loads_list) : ~ActsAt(loads_list[k], L))
  => result.M[NumStations] = R[0]

\* C5: cantilever fixed at SupA = 0 with one point load P at the free end:
\* Ra = P, Ma = P*L, Rb = 0, moment -Ma at station x = 0 and 0 at x = L.
C5_CantileverFixedEnd ==
  (/\ pc = "idle"
   /\ b_type = "Cantilever" /\ SupA = 0
   /\ Len(loads_list) = 1
   /\ loads_list[1].type = "POINT" /\ loads_list[1].loc = L)
  => /\ result.status = "ok"
     /\ result.Ra = R[loads_list[1].mag]
     /\ result.Ma = R[loads_list[1].mag * L]
     /\ result.Rb = R[0]
     /\ result.M[1] = FNeg[result.Ma]
     /\ result.M[NumStations] = R[0]

\* C7: the centroid division of the UVL branch is protected: at a station
\* where the branch runs with w1 + w_at_x = 0 nothing is raised and the load
\* contributes 0 to shear and to moment.
C7_DivisorGuarded ==
  pc = "idle" =>
     \A k \in 1..Len(loads_list) : \A i \in 1..NumStations :
        (/\ UVLEngaged(loads_list[k], Station(L, i))
         /\ UVLDivisor(loads_list[k], Station(L, i)) = R[0])
        => /\ result.status = "ok"
           /\ LoadCut(loads_list[k], Station(L, i)) = <<R[0], R[0]>>

\* station xi lies at or beyond the end of the load
Beyond(l, xi) ==
  IF l.type = "POINT" THEN FLt[R[l.loc], xi] ELSE ~FLt[xi, R[l.end]]

\* C10: at a station at or beyond the end of a load the sampler subtracts from
\* shear the force the solver accumulates for the load, and from moment that
\* force times (x - centroid) with the solver's centroid, that is
\* force * (x - SupA) minus the solver's moment of the load about SupA.
\* Stated for the stations where the sampler's centroid expression has a
\* non-zero divisor (C7 is about the others).
C10_SolverSamplerAgree ==
  (pc = "idle" /\ result.status = "ok") =>
     \A k \in 1..Len(loads_list) : \A i \in 1..NumStations :
        (/\ Beyond(loads_list[k], Station(L, i))
         /\ loads_list[k].type = "UVL" => UVLDivisor(loads_list[k], Station(L, i)) # R[0])
        =>
          /\ LoadCut(loads_list[k], Station(L, i))[1] = LoadForce(loads_list[k])
          /\ LoadCut(loads_list[k], Station(L, i))[2] =
               FSub[FMul[LoadForce(loads_list[k]), FSub[Station(L, i), R[SupA]]],
                    LoadMoment(loads_list[k], SupA)]
====
